---- MODULE Spec2Model ----
(***************************************************************************)
(* Demand pattern classification (src/demand_classification.py).           *)
(*                                                                         *)
(* Numbers.  The program computes with floating point values; the model    *)
(* keeps a value x as the integer floor(x * Unit), Unit being 1.0, plus    *)
(* the not-a-number value NaN.  Both thresholds (0.5 and 1.32) are whole   *)
(* multiples of 1/Unit, so "x < threshold" and "x >= threshold" are        *)
(* decided exactly by the floor.                                           *)
(***************************************************************************)
EXTENDS Integers, Sequences, FiniteSets, TLC

\* ------------------------------------------------------------------ bounds
\* Most rows of a generated input dataset.
MaxRows == 3
\* Longest series handed directly to calculate_cv / calculate_adi.
MaxLen == 3

\* --------------------------------------------------------------- constants
\* CV_THRESHOLD = 0.5 and ADI_THRESHOLD = 1.32, in hundredths.
CV_THRESHOLD == 50
ADI_THRESHOLD == 132
\* 1.0 in the fixed-point unit (CV_THRESHOLD is one half).
Unit == CV_THRESHOLD + CV_THRESHOLD

\* ------------------------------------------------------------------ floats
NaN == [nan |-> TRUE, v |-> 0]
Num(n) == [nan |-> FALSE, v |-> n]
isna(x) == x.nan

RECURSIVE SqrtBetween(_, _, _)
SqrtBetween(lo, hi, x) ==
    IF lo = hi THEN lo
    ELSE LET mid == (lo + hi + 1) \div 2
         IN  IF mid * mid <= x THEN SqrtBetween(mid, hi, x)
                               ELSE SqrtBetween(lo, mid - 1, x)
\* floor of the square root of a natural number below 2^30
ISqrt(x) == SqrtBetween(0, 32767, x)

\* ------------------------------------------------------ array reductions
RECURSIVE Sum(_)
Sum(s) == IF s = <<>> THEN 0 ELSE Head(s) + Sum(Tail(s))

RECURSIVE SumSq(_)
SumSq(s) == IF s = <<>> THEN 0 ELSE Head(s) * Head(s) + SumSq(Tail(s))

\* (demand_series > 0).sum()
RECURSIVE CountPositive(_)
CountPositive(s) ==
    IF s = <<>> THEN 0
    ELSE (IF Head(s) > 0 THEN 1 ELSE 0) + CountPositive(Tail(s))

\* N^2 times the population variance (numpy's std divides by N)
VarNum(s) == Len(s) * SumSq(s) - Sum(s) * Sum(s)

\* demand_series.mean() and demand_series.std() of a non-empty array
Mean(s) == (Unit * Sum(s)) \div Len(s)
Std(s) == ISqrt((Unit * Unit * VarNum(s)) \div (Len(s) * Len(s)))

\* ------------------------------------------------------ statistic calculators
\* std / mean with the sample standard deviation (divisor N - 1)
StdOverMean_Sample(s) ==
    IF Len(s) < 2 THEN 0
    ELSE ISqrt((Unit * Unit * VarNum(s) * Len(s))
               \div ((Len(s) - 1) * Sum(s) * Sum(s)))

\* std / mean of a series whose mean is positive: sqrt(VarNum) / Sum
StdOverMean(s) == ISqrt((Unit * Unit * VarNum(s)) \div (Sum(s) * Sum(s)))

calculate_cv_ZeroForNoDemand(demand_series) ==
    IF Len(demand_series) = 0 THEN NaN
    ELSE IF Sum(demand_series) = 0 THEN Num(0)
    ELSE IF Sum(demand_series) > 0 THEN Num(StdOverMean(demand_series))
    ELSE NaN

calculate_cv(demand_series) ==
    IF Len(demand_series) = 0 \/ Sum(demand_series) = 0 THEN NaN
    ELSE LET mean_num == Sum(demand_series)   \* mean_demand = mean_num / N
         IN  IF mean_num = 0 THEN NaN
             ELSE IF mean_num > 0 THEN Num(StdOverMean(demand_series))
             ELSE NaN

calculate_adi(demand_series, date_series) ==
    IF Len(demand_series) = 0 THEN NaN
    ELSE LET periods_with_demand == CountPositive(demand_series)
             total_periods == Len(demand_series)
         IN  IF periods_with_demand = 0 THEN NaN
             ELSE Num((Unit * total_periods) \div periods_with_demand)

\* ------------------------------------------------------- pattern classifier
classify_demand_pattern_StrictGe(cv, adi) ==
    IF isna(cv) \/ isna(adi) THEN "Unknown"
    ELSE IF cv.v <= CV_THRESHOLD /\ adi.v < ADI_THRESHOLD THEN "Smooth"
    ELSE IF cv.v > CV_THRESHOLD /\ adi.v < ADI_THRESHOLD THEN "Erratic"
    ELSE IF cv.v <= CV_THRESHOLD /\ adi.v >= ADI_THRESHOLD THEN "Intermittent"
    ELSE "Lumpy"

classify_demand_pattern(cv, adi) ==
    IF isna(cv) \/ isna(adi) THEN "Unknown"
    ELSE IF cv.v < CV_THRESHOLD /\ adi.v < ADI_THRESHOLD THEN "Smooth"
    ELSE IF cv.v >= CV_THRESHOLD /\ adi.v < ADI_THRESHOLD THEN "Erratic"
    ELSE IF cv.v < CV_THRESHOLD /\ adi.v >= ADI_THRESHOLD THEN "Intermittent"
    ELSE "Lumpy"

\* ---------------------------------------------------------------- datasets
(***************************************************************************)
(* A DataFrame is [columns |-> sequence of column names, rows |-> sequence *)
(* of rows], a row being a function from the column names to values.  A    *)
(* column name is a sequence of tokens, so that 'location_id_LOC_002' is   *)
(* <<"location_id_", "LOC_", "002">> and the location code 'LOC_002' is    *)
(* <<"LOC_", "002">>.  A date is [kind, day]: a string as read from a CSV  *)
(* file ("str"), a string that is no date ("bad") or a timestamp ("ts").   *)
(***************************************************************************)
DATE == <<"date">>
PART_SKU == <<"part_sku">>
QUANTITY_SOLD == <<"quantity_sold">>
LOCATION_ID == <<"location_id">>
DEMAND_PATTERN == <<"demand_pattern">>
CV == <<"cv">>
ADI == <<"adi">>

LOC(n) == <<"LOC_", n>>
IndicatorColumn(n) == <<"location_id_">> \o LOC(n)

ToSet(s) == {s[i] : i \in 1..Len(s)}
HasColumn(d, c) == c \in ToSet(d.columns)

\* df[c] = values: overwrites the column, or appends it as the last one
SetColumn(d, c, values) ==
    [columns |-> IF HasColumn(d, c) THEN d.columns ELSE Append(d.columns, c),
     rows |-> [i \in 1..Len(d.rows) |->
                 [k \in DOMAIN d.rows[i] \cup {c} |->
                    IF k = c THEN values[i] ELSE d.rows[i][k]]]]

\* pd.to_datetime of one value
to_datetime(x) == [kind |-> "ts", day |-> x.day]
\* pd.to_datetime raises on a string it cannot parse
ToDatetimeRaises(d) == \E i \in 1..Len(d.rows) : d.rows[i][DATE].kind = "bad"

\* -------------------------------------------------------- location reconciler
\* [col for col in df.columns if col.startswith('location_id_LOC_')]
StartsWithLocationPrefix(col) ==
    Len(col) >= 2 /\ col[1] = "location_id_" /\ col[2] = "LOC_"
LocationCols(d) == SelectSeq(d.columns, StartsWithLocationPrefix)

\* loc_col.replace('location_id_', '')
IsNotPrefixToken(t) == t # "location_id_"
StripPrefix(loc_col) == SelectSeq(loc_col, IsNotPrefixToken)

\* the value given when no indicator is 1 (both branches of lines 109-114)
DefaultLocationFirstColumn(row, location_cols) == StripPrefix(location_cols[1])
DefaultLocation(row, location_cols) ==
    IF \A j \in 1..Len(location_cols) : row[location_cols[j]] = 0
    THEN LOC("001")
    ELSE LOC("001")

\* the inner loop of lines 102-107 from column j on, without the break
RECURSIVE ScanNoBreak(_, _, _, _)
ScanNoBreak(row, location_cols, j, location) ==
    IF j > Len(location_cols) THEN location
    ELSE ScanNoBreak(row, location_cols, j + 1,
                     IF row[location_cols[j]] = 1
                     THEN <<StripPrefix(location_cols[j])>> ELSE location)

\* the inner loop of lines 102-107 from column j on: <<>> is None
RECURSIVE Scan(_, _, _, _)
Scan(row, location_cols, j, location) ==
    IF j > Len(location_cols) THEN location
    ELSE IF row[location_cols[j]] = 1 THEN <<StripPrefix(location_cols[j])>>
    ELSE Scan(row, location_cols, j + 1, location)

RowLocation_NoBreak(row, location_cols) ==
    LET location == ScanNoBreak(row, location_cols, 1, <<>>)
    IN  IF location = <<>> THEN DefaultLocation(row, location_cols)
        ELSE location[1]

RowLocation(row, location_cols) ==
    LET location == Scan(row, location_cols, 1, <<>>)
    IN  IF location = <<>> THEN DefaultLocation(row, location_cols)
        ELSE location[1]

ReconcilerRuns(d) == LocationCols(d) # <<>> /\ ~HasColumn(d, LOCATION_ID)

Reconstruct(d) ==
    SetColumn(d, LOCATION_ID,
              [i \in 1..Len(d.rows) |-> RowLocation(d.rows[i], LocationCols(d))])

\* ------------------------------------------------------------ sort and group
SkuOrder == <<"SKU_A", "SKU_B">>
LocOrder == <<LOC("001"), LOC("002"), LOC("003")>>
Rank(order, x) ==
    IF \E i \in 1..Len(order) : order[i] = x
    THEN CHOOSE i \in 1..Len(order) : order[i] = x
    ELSE 0

\* r1 sorts strictly before r2 by (part_sku, location_id, date)
Less(r1, r2) ==
    LET a == <<Rank(SkuOrder, r1[PART_SKU]), Rank(LocOrder, r1[LOCATION_ID]),
               r1[DATE].day>>
        b == <<Rank(SkuOrder, r2[PART_SKU]), Rank(LocOrder, r2[LOCATION_ID]),
               r2[DATE].day>>
    IN  \/ a[1] < b[1]
        \/ a[1] = b[1] /\ a[2] < b[2]
        \/ a[1] = b[1] /\ a[2] = b[2] /\ a[3] < b[3]

RECURSIVE InsertSorted(_, _)
InsertSorted(r, s) ==
    IF s = <<>> THEN <<r>>
    ELSE IF Less(r, Head(s)) THEN <<r>> \o s
    ELSE <<Head(s)>> \o InsertSorted(r, Tail(s))

RECURSIVE SortRows(_)
SortRows(rows) ==
    IF rows = <<>> THEN <<>>
    ELSE InsertSorted(rows[Len(rows)], SortRows(SubSeq(rows, 1, Len(rows) - 1)))

\* df.sort_values(['part_sku', 'location_id', 'date']) raises KeyError
SortRaises(d) ==
    ~HasColumn(d, PART_SKU) \/ ~HasColumn(d, LOCATION_ID) \/ ~HasColumn(d, DATE)

sort_values(d) == [columns |-> d.columns, rows |-> SortRows(d.rows)]

KeyOf(row) == [part_sku |-> row[PART_SKU], location_id |-> row[LOCATION_ID]]

\* one key per row: what a grouping that failed to merge equal keys would give
RECURSIVE GroupKeysPerRow(_)
GroupKeysPerRow(rows) ==
    IF rows = <<>> THEN <<>>
    ELSE <<KeyOf(Head(rows))>> \o GroupKeysPerRow(Tail(rows))

\* the keys of df.groupby(['part_sku', 'location_id']) over sorted rows, in order
RECURSIVE GroupKeys(_)
GroupKeys(rows) ==
    IF rows = <<>> THEN <<>>
    ELSE LET rest == GroupKeys(Tail(rows))
         IN  IF rest # <<>> /\ rest[1] = KeyOf(Head(rows)) THEN rest
             ELSE <<KeyOf(Head(rows))>> \o rest

GroupRows(rows, key) == SelectSeq(rows, LAMBDA r : KeyOf(r) = key)

SeriesRaises_Never(d) == FALSE
\* group['quantity_sold'] raises KeyError
SeriesRaises(d) == ~HasColumn(d, QUANTITY_SOLD)

\* group['quantity_sold'].values
DemandSeries(group) ==
    [i \in 1..Len(group) |->
       IF QUANTITY_SOLD \in DOMAIN group[i] THEN group[i][QUANTITY_SOLD] ELSE 0]
DateSeries(group) == [i \in 1..Len(group) |-> group[i][DATE]]

\* the dictionary appended at lines 145-157
ClassificationRecord(key, group) ==
    LET demand_series == DemandSeries(group)
        date_series == DateSeries(group)
        cv == calculate_cv(demand_series)
        adi == calculate_adi(demand_series, date_series)
        periods_with_demand == CountPositive(demand_series)
        total_periods == Len(demand_series)
    IN  [part_sku |-> key.part_sku,
         location_id |-> key.location_id,
         cv |-> cv,
         adi |-> adi,
         demand_pattern |-> classify_demand_pattern(cv, adi),
         total_demand |-> Sum(demand_series),
         mean_demand |-> Mean(demand_series),
         std_demand |-> Std(demand_series),
         periods_with_demand |-> periods_with_demand,
         total_periods |-> total_periods,
         zero_demand_ratio |->
             IF total_periods > 0
             THEN Unit - (Unit * periods_with_demand) \div total_periods
             ELSE 0]

\* pd.DataFrame(classification_results): an empty list gives no columns
ResultColumns ==
    {"part_sku", "location_id", "cv", "adi", "demand_pattern", "total_demand",
     "mean_demand", "std_demand", "periods_with_demand", "total_periods",
     "zero_demand_ratio"}
MakeFrame(results) ==
    [columns |-> IF results = <<>> THEN {} ELSE ResultColumns, rows |-> results]

\* classification_df[['part_sku', 'location_id', 'demand_pattern', 'cv', 'adi']]
SelectRaises(cdf) ==
    ~({"part_sku", "location_id", "demand_pattern", "cv", "adi"} \subseteq cdf.columns)

\* one left row of df.merge(..., on=['part_sku', 'location_id'], how='left')
Annotate(row, m) ==
    [k \in DOMAIN row \cup {DEMAND_PATTERN, CV, ADI} |->
       IF k = DEMAND_PATTERN THEN m.demand_pattern
       ELSE IF k = CV THEN m.cv
       ELSE IF k = ADI THEN m.adi
       ELSE row[k]]
Missing == [demand_pattern |-> "NaN", cv |-> NaN, adi |-> NaN]

RECURSIVE AnnotateAll(_, _)
AnnotateAll(row, matches) ==
    IF matches = <<>> THEN <<>>
    ELSE <<Annotate(row, Head(matches))>> \o AnnotateAll(row, Tail(matches))

\* the right rows a left row joins with
Matches(row, right) ==
    SelectSeq(right, LAMBDA m : m.part_sku = row[PART_SKU]
                                /\ m.location_id = row[LOCATION_ID])

RECURSIVE MergeRows(_, _)
MergeRows(left, right) ==
    IF left = <<>> THEN <<>>
    ELSE LET matches == Matches(Head(left), right)
         IN  (IF matches = <<>> THEN <<Annotate(Head(left), Missing)>>
              ELSE AnnotateAll(Head(left), matches))
             \o MergeRows(Tail(left), right)

merge(d, cdf) ==
    [columns |-> d.columns \o <<DEMAND_PATTERN, CV, ADI>>,
     rows |-> MergeRows(d.rows, cdf.rows)]

\* ------------------------------------------------------------ report generator
\* the category list of lines 188 and 227, and the one of line 201
ReportPatterns_NamedOnly == <<"Smooth", "Erratic", "Intermittent", "Lumpy">>
ReportPatterns == <<"Smooth", "Erratic", "Intermittent", "Lumpy", "Unknown">>

RECURSIVE CountOf(_, _)
CountOf(values, p) ==
    IF values = <<>> THEN 0
    ELSE (IF Head(values) = p THEN 1 ELSE 0) + CountOf(Tail(values), p)

\* value_counts().get(p, 0): missing values are not counted
ValueCount(values, p) == IF p = "NaN" THEN 0 ELSE CountOf(values, p)
NonNull(values) == Len(values) - CountOf(values, "NaN")

\* num / den rounded to the nearest integer, ties to even: the ':5.2f' format
RoundHalfEven(num, den) ==
    LET q == num \div den
        r == num % den
    IN  IF 2 * r < den THEN q
        ELSE IF 2 * r > den THEN q + 1
        ELSE IF q % 2 = 0 THEN q ELSE q + 1

\* value_counts(normalize=True) * 100 .get(p, 0), as printed, in 1/100 percent
Percent(values, p) ==
    IF ValueCount(values, p) = 0 THEN 0
    ELSE RoundHalfEven(ValueCount(values, p) * Unit * Unit, NonNull(values))

DistributionLines(values) ==
    [i \in 1..Len(ReportPatterns) |->
       [pattern |-> ReportPatterns[i],
        count |-> ValueCount(values, ReportPatterns[i]),
        pct |-> Percent(values, ReportPatterns[i])]]

Column(rows, c) == [i \in 1..Len(rows) |-> rows[i][c]]
PatternsOf(results) == [i \in 1..Len(results) |-> results[i].demand_pattern]

generate_classification_report(cdf, dfc) ==
    [group_lines |-> DistributionLines(PatternsOf(cdf.rows)),
     total_groups |-> Len(cdf.rows),
     total_records |-> Len(dfc.rows),
     unique_skus |-> Cardinality(ToSet(Column(dfc.rows, PART_SKU))),
     unique_locations |-> Cardinality(ToSet(Column(dfc.rows, LOCATION_ID))),
     record_lines |-> DistributionLines(Column(dfc.rows, DEMAND_PATTERN))]

NoReport ==
    [group_lines |-> <<>>, total_groups |-> 0, total_records |-> 0,
     unique_skus |-> 0, unique_locations |-> 0, record_lines |-> <<>>]

\* ------------------------------------------------------------------- state
VARIABLES
    input,                  \* the dataset as the caller handed it over
    df,                     \* the caller's DataFrame object (lines 84-117)
    sorted_df,              \* the local df after line 120
    groups,                 \* the keys the loop of line 125 iterates
    gi,                     \* index of the next group
    classification_results, \* line 123
    classification_df,      \* line 159
    df_classified,          \* line 162
    report,                 \* what generate_classification_report returned
    pc,                     \* position in main / classify_demand_patterns
    err,                    \* the exception that ended the run
    loop_entered,           \* the body of the loop of line 125 has started
    stat_calls,             \* calls of calculate_cv / calculate_adi so far
    u_pc, u_series, u_cv, u_adi, u_pattern   \* a direct call of the functions

vars == <<input, df, sorted_df, groups, gi, classification_results,
          classification_df, df_classified, report, pc, err, loop_entered,
          stat_calls, u_pc, u_series, u_cv, u_adi, u_pattern>>

pipeline_vars == <<input, df, sorted_df, groups, gi, classification_results,
                   classification_df, df_classified, report, pc, err,
                   loop_entered, stat_calls>>
unit_vars == <<u_pc, u_series, u_cv, u_adi, u_pattern>>

NoFrame == [columns |-> <<>>, rows |-> <<>>]
NoError == [line |-> 0, error |-> "none"]

\* ------------------------------------------------------------------ inputs
NamedColumns == <<DATE, PART_SKU, QUANTITY_SOLD, LOCATION_ID>>
\* the indicator columns in either order, with dates as strings or timestamps
OneHotEncodings ==
    {<<<<IndicatorColumn("002"), IndicatorColumn("003")>>, "str">>,
     <<<<IndicatorColumn("003"), IndicatorColumn("002")>>, "ts">>}

MkRow(columns, sku, loc, date, qty, ind) ==
    [c \in ToSet(columns) |->
       IF c = DATE THEN date
       ELSE IF c = PART_SKU THEN sku
       ELSE IF c = QUANTITY_SOLD THEN qty
       ELSE IF c = LOCATION_ID THEN loc
       ELSE ind[c]]

Frame(columns, rows) == [columns |-> columns, rows |-> rows]

\* rows of a dataset with an explicit location_id column: a part stocked at
\* two locations and a second part at one of them, any demand
GroupedKeys ==
    {<<"SKU_A", LOC("001")>>, <<"SKU_A", LOC("002")>>, <<"SKU_B", LOC("001")>>}
GroupedRows ==
    {MkRow(NamedColumns, k[1], k[2], [kind |-> "str", day |-> 1], q, <<>>) :
       k \in GroupedKeys, q \in {0, 1, 3}}

\* rows of a one-hot encoded dataset: indicator values 0, 1 and 2
OneHotColumns(order) == <<DATE, PART_SKU, QUANTITY_SOLD>> \o order
OneHotRows(order, kind) ==
    {MkRow(OneHotColumns(order), "SKU_A", <<>>, [kind |-> kind, day |-> d], 1, ind) :
       d \in {1, 2}, ind \in [ToSet(order) -> {0, 1, 2}]}

\* rows of a dataset with both a location_id column and indicator columns
BothColumns == NamedColumns \o <<IndicatorColumn("002"), IndicatorColumn("003")>>
BothRows ==
    {MkRow(BothColumns, "SKU_A", l, [kind |-> "ts", day |-> 1], 1, ind) :
       l \in {LOC("001"), LOC("003")},
       ind \in [{IndicatorColumn("002"), IndicatorColumn("003")} -> {0, 1}]}

\* datasets with any subset of the named columns, and dates that do not parse
SchemaDatasets ==
    UNION {
      LET columns == SelectSeq(NamedColumns, LAMBDA c : c \in present) \o order
          row == MkRow(columns, "SKU_A", LOC("001"), [kind |-> kind, day |-> 1], 1,
                       [c \in ToSet(order) |-> 0])
      IN  {Frame(columns, [i \in 1..n |-> row]) : n \in 0..2}
      : present \in SUBSET ToSet(NamedColumns),
        order \in {<<>>, <<IndicatorColumn("002"), IndicatorColumn("003")>>},
        kind \in {"str", "bad"}}

\* one part/location group holding a given quantity series, one row per period
SeriesDataset(series) ==
    Frame(NamedColumns,
          [i \in 1..Len(series) |->
             MkRow(NamedColumns, "SKU_A", LOC("001"), [kind |-> "str", day |-> i],
                   series[i], <<>>)])

ExampleAlternating == <<5, 0, 5, 0, 5, 0, 5, 0, 5, 0>>
ExampleConstant == <<1, 1, 1, 1, 1, 1, 1, 1, 1, 1>>
ExampleSingleSpike == <<0, 0, 0, 10, 0, 0, 0, 0, 0, 0>>
ExampleSeries == {ExampleAlternating, ExampleConstant, ExampleSingleSpike}
ExampleDatasets == {SeriesDataset(s) : s \in ExampleSeries}

UnitIdle ==
    /\ u_pc = "idle"
    /\ u_series = <<>>
    /\ u_cv = NaN
    /\ u_adi = NaN
    /\ u_pattern = "none"

PipelineStart(d) ==
    /\ input = d
    /\ df = d
    /\ sorted_df = NoFrame
    /\ groups = <<>>
    /\ gi = 1
    /\ classification_results = <<>>
    /\ classification_df = [columns |-> {}, rows |-> <<>>]
    /\ df_classified = NoFrame
    /\ report = NoReport
    /\ err = NoError
    /\ loop_entered = FALSE
    /\ stat_calls = 0

\* main() has loaded the dataset (line 243)
Init ==
    /\ \/ \E k \in 0..MaxRows : \E rows \in [1..k -> GroupedRows] :
            PipelineStart(Frame(NamedColumns, rows))
       \/ \E e \in OneHotEncodings :
            \E k \in 0..(MaxRows - 1) : \E rows \in [1..k -> OneHotRows(e[1], e[2])] :
              PipelineStart(Frame(OneHotColumns(e[1]), rows))
       \/ \E k \in 0..(MaxRows - 1) : \E rows \in [1..k -> BothRows] :
            PipelineStart(Frame(BothColumns, rows))
       \/ \E d \in SchemaDatasets \cup ExampleDatasets : PipelineStart(d)
    /\ pc = "start"
    /\ UnitIdle

\* ------------------------------------------------------------------ actions
Raise(line, error) ==
    /\ pc' = "raised"
    /\ err' = [line |-> line, error |-> error]

\* line 93: df['date'] = pd.to_datetime(df['date'])
ToDatetime ==
    /\ pc = "start"
    /\ IF ~HasColumn(df, DATE)
       THEN Raise(93, "KeyError") /\ UNCHANGED df
       ELSE IF ToDatetimeRaises(df)
       THEN Raise(93, "ValueError") /\ UNCHANGED df
       ELSE /\ df' = SetColumn(df, DATE,
                       [i \in 1..Len(df.rows) |-> to_datetime(df.rows[i][DATE])])
            /\ pc' = "dated"
            /\ UNCHANGED err
    /\ UNCHANGED <<input, sorted_df, groups, gi, classification_results,
                   classification_df, df_classified, report, loop_entered,
                   stat_calls>>
    /\ UNCHANGED unit_vars

\* lines 96-117: the location reconciler
ReconstructLocation ==
    /\ pc = "dated"
    /\ df' = IF ReconcilerRuns(df) THEN Reconstruct(df) ELSE df
    /\ pc' = "located"
    /\ UNCHANGED <<input, sorted_df, groups, gi, classification_results,
                   classification_df, df_classified, report, err, loop_entered,
                   stat_calls>>
    /\ UNCHANGED unit_vars

\* line 120, and the grouping of line 125
SortValues ==
    /\ pc = "located"
    /\ IF SortRaises(df)
       THEN Raise(120, "KeyError") /\ UNCHANGED <<sorted_df, groups>>
       ELSE /\ sorted_df' = sort_values(df)
            /\ groups' = GroupKeys(SortRows(df.rows))
            /\ pc' = "grouping"
            /\ UNCHANGED err
    /\ UNCHANGED <<input, df, gi, classification_results, classification_df,
                   df_classified, report, loop_entered, stat_calls>>
    /\ UNCHANGED unit_vars

\* lines 125-157: one iteration of the loop over the groups
GroupStep ==
    /\ pc = "grouping"
    /\ gi <= Len(groups)
    /\ loop_entered' = TRUE
    /\ IF SeriesRaises(sorted_df)
       THEN /\ Raise(127, "KeyError")
            /\ UNCHANGED <<gi, classification_results, stat_calls>>
       ELSE /\ classification_results' =
                 Append(classification_results,
                        ClassificationRecord(groups[gi],
                                             GroupRows(sorted_df.rows, groups[gi])))
            /\ stat_calls' = stat_calls + 2
            /\ gi' = gi + 1
            /\ UNCHANGED <<pc, err>>
    /\ UNCHANGED <<input, df, sorted_df, groups, classification_df,
                   df_classified, report>>
    /\ UNCHANGED unit_vars

\* lines 159-168: the classification table and the merge onto the rows
BuildAndMerge ==
    /\ pc = "grouping"
    /\ gi > Len(groups)
    /\ classification_df' = MakeFrame(classification_results)
    /\ IF SelectRaises(MakeFrame(classification_results))
       THEN Raise(163, "KeyError") /\ UNCHANGED df_classified
       ELSE /\ df_classified' = merge(sorted_df, MakeFrame(classification_results))
            /\ pc' = "returned"
            /\ UNCHANGED err
    /\ UNCHANGED <<input, df, sorted_df, groups, gi, classification_results,
                   report, loop_entered, stat_calls>>
    /\ UNCHANGED unit_vars

\* line 258: main() builds the report from the two tables
GenerateReport ==
    /\ pc = "returned"
    /\ report' = generate_classification_report(classification_df, df_classified)
    /\ pc' = "reported"
    /\ UNCHANGED <<input, df, sorted_df, groups, gi, classification_results,
                   classification_df, df_classified, err, loop_entered,
                   stat_calls>>
    /\ UNCHANGED unit_vars

Next ==
    \/ ToDatetime
    \/ ReconstructLocation
    \/ SortValues
    \/ GroupStep
    \/ BuildAndMerge
    \/ GenerateReport

Spec == Init /\ [][Next]_vars

\* ------------------------------------------------ direct calls of the functions
\* values around both thresholds, and not-a-number
FloatGrid ==
    {NaN} \cup {Num(v) : v \in {-100, 0, 49, 50, 51, 100, 131, 132, 133, 300}}

UnitValues == {-1, 0, 1, 3}

InitUnit ==
    /\ PipelineStart(NoFrame)
    /\ pc = "idle"
    /\ u_pattern = "none"
    /\ \/ /\ u_pc = "call_classify"
          /\ u_cv \in FloatGrid
          /\ u_adi \in FloatGrid
          /\ u_series = <<>>
       \/ /\ u_pc = "call_calculate"
          /\ \/ \E k \in 0..MaxLen : u_series \in [1..k -> UnitValues]
             \/ u_series \in ExampleSeries
          /\ u_cv = NaN
          /\ u_adi = NaN

CallCalculateCv ==
    /\ u_pc = "call_calculate"
    /\ u_cv' = calculate_cv(u_series)
    /\ u_pc' = "have_cv"
    /\ UNCHANGED <<u_series, u_adi, u_pattern>>
    /\ UNCHANGED pipeline_vars

CallCalculateAdi ==
    /\ u_pc = "have_cv"
    /\ u_adi' = calculate_adi(u_series, <<>>)
    /\ u_pc' = "have_stats"
    /\ UNCHANGED <<u_series, u_cv, u_pattern>>
    /\ UNCHANGED pipeline_vars

CallClassify ==
    /\ u_pc \in {"call_classify", "have_stats"}
    /\ u_pattern' = classify_demand_pattern(u_cv, u_adi)
    /\ u_pc' = IF u_pc = "call_classify" THEN "classified" ELSE "series_classified"
    /\ UNCHANGED <<u_series, u_cv, u_adi>>
    /\ UNCHANGED pipeline_vars

NextUnit ==
    \/ CallCalculateCv
    \/ CallCalculateAdi
    \/ CallClassify

SpecUnit == InitUnit /\ [][NextUnit]_vars

\* ------------------------------------------------------------- properties
Classified == u_pc \in {"classified", "series_classified"}
Returned == pc \in {"returned", "reported"}
Terminal == pc \in {"raised", "reported"}

\* the reconciler step of the run is behind
Located ==
    \/ pc \in {"located", "grouping", "returned", "reported"}
    \/ pc = "raised" /\ err.line >= 120

\* a required column is missing from d
MissingRequired(d) ==
    \/ ~HasColumn(d, DATE)
    \/ ~HasColumn(d, PART_SKU)
    \/ ~HasColumn(d, QUANTITY_SOLD)
    \/ /\ ~HasColumn(d, LOCATION_ID)
       /\ \A j \in 1..Len(d.columns) : ~StartsWithLocationPrefix(d.columns[j])

\* d has every required column and dates that parse
WellFormed(d) ==
    /\ ~MissingRequired(d)
    /\ \A i \in 1..Len(d.rows) : d.rows[i][DATE].kind # "bad"

\* d is one-hot encoded: indicator columns and no location_id column
OneHot(d) ==
    /\ ~HasColumn(d, LOCATION_ID)
    /\ \E j \in 1..Len(d.columns) : StartsWithLocationPrefix(d.columns[j])

\* positions, in d's column order, of the indicator columns that are 1 in row i
SetIndicators(d, i) ==
    {j \in 1..Len(d.columns) :
       StartsWithLocationPrefix(d.columns[j]) /\ d.rows[i][d.columns[j]] = 1}

Min(S) == CHOOSE x \in S : \A y \in S : x <= y

\* the location code an indicator column is named after
CodeOf(col) == Tail(col)

\* C1: classify_demand_pattern returns Unknown exactly when cv or adi is
\* not-a-number, and otherwise the quadrant of (cv, adi) with both
\* thresholds on the ">=" side: Smooth, Erratic, Intermittent or Lumpy.
C1_QuadrantTable ==
    Classified =>
      /\ (u_pattern = "Unknown") <=> (u_cv.nan \/ u_adi.nan)
      /\ (~u_cv.nan /\ ~u_adi.nan) =>
           /\ (u_cv.v < 50 /\ u_adi.v < 132) => u_pattern = "Smooth"
           /\ (u_cv.v >= 50 /\ u_adi.v < 132) => u_pattern = "Erratic"
           /\ (u_cv.v < 50 /\ u_adi.v >= 132) => u_pattern = "Intermittent"
           /\ (u_cv.v >= 50 /\ u_adi.v >= 132) => u_pattern = "Lumpy"
      /\ (u_cv = Num(50) /\ u_adi = Num(100)) => u_pattern = "Erratic"
      /\ (u_cv = Num(49) /\ u_adi = Num(132)) => u_pattern = "Intermittent"

C1_Witness ==
    /\ u_pc = "classified"
    /\ u_cv = Num(50)
    /\ u_adi = Num(100)
    /\ u_pattern = "Erratic"

\* C2: for an empty or all-zero series calculate_cv and calculate_adi both
\* return not-a-number, and classifying the two results gives Unknown.
C2_NoDemandIsUnknown ==
    (\A i \in 1..Len(u_series) : u_series[i] = 0) =>
      /\ u_pc \in {"have_cv", "have_stats", "series_classified"} => u_cv = NaN
      /\ u_pc \in {"have_stats", "series_classified"} => u_adi = NaN
      /\ u_pc = "series_classified" => u_pattern = "Unknown"

C2_Witness ==
    /\ u_pc = "series_classified"
    /\ u_series = <<0, 0>>
    /\ u_cv = NaN
    /\ u_adi = NaN
    /\ u_pattern = "Unknown"

\* C3: for any input dataset with the required columns, the empty one
\* included, the run returns an annotated table with as many rows as the input.
C3_RowCountPreserved ==
    (WellFormed(input) /\ Terminal) =>
      /\ pc = "reported"
      /\ Len(df_classified.rows) = Len(input.rows)

\* the classification table of line 159 has been built
TableBuilt == Returned \/ (pc = "raised" /\ err.line = 163)

\* C4: the classification table, once built, has exactly one row per distinct
\* (part_sku, location_id) pair of the located input; a group of zeros has
\* pattern Unknown, a single-point group has its statistics, and the run never
\* raises while the groups are processed: on an input with the required
\* columns the only exception is the one of line 163, on an input without rows.
C4_OneRowPerGroup ==
    /\ TableBuilt =>
         LET pairs == {KeyOf(df.rows[i]) : i \in 1..Len(df.rows)}
             table == classification_df.rows
         IN  /\ Len(table) = Cardinality(pairs)
             /\ \A k \in pairs :
                  Cardinality({i \in 1..Len(table) :
                                 /\ table[i].part_sku = k.part_sku
                                 /\ table[i].location_id = k.location_id}) = 1
             /\ \A i \in 1..Len(table) :
                  LET mine == {j \in 1..Len(df.rows) :
                                 KeyOf(df.rows[j]) =
                                   [part_sku |-> table[i].part_sku,
                                    location_id |-> table[i].location_id]}
                  IN  /\ table[i].total_periods = Cardinality(mine)
                      /\ (\A j \in mine : df.rows[j][QUANTITY_SOLD] = 0)
                           => table[i].demand_pattern = "Unknown"
                      /\ (Cardinality(mine) = 1
                          /\ \E j \in mine : df.rows[j][QUANTITY_SOLD] > 0)
                           => /\ table[i].cv = Num(0)
                              /\ table[i].adi = Num(100)
                              /\ table[i].demand_pattern = "Smooth"
    /\ (pc = "raised" /\ WellFormed(input)) =>
         (err.line = 163 /\ input.rows = <<>> /\ ~loop_entered)

C4_Witness ==
    /\ pc = "returned"
    /\ Len(input.rows) = 3
    /\ Len(classification_df.rows) = 2
    /\ classification_df.rows[1].demand_pattern = "Unknown"
    /\ classification_df.rows[1].total_periods = 2
    /\ classification_df.rows[2].total_periods = 1

\* C5 as claimed: the series [5,0,5,0,5,0,5,0,5,0] is classified Intermittent,
\* [1,1,1,1,1,1,1,1,1,1] Smooth and [0,0,0,10,0,0,0,0,0,0] Lumpy.
C5_ExamplesAsClaimed ==
    Returned =>
      /\ input = SeriesDataset(ExampleAlternating)
           => classification_df.rows[1].demand_pattern = "Intermittent"
      /\ input = SeriesDataset(ExampleConstant)
           => classification_df.rows[1].demand_pattern = "Smooth"
      /\ input = SeriesDataset(ExampleSingleSpike)
           => classification_df.rows[1].demand_pattern = "Lumpy"

\* C5 as amended: [5,0,5,0,5,0,5,0,5,0] has ADI 2.0 and CV 1.0 and is
\* classified Lumpy; [1,...,1] has ADI 1.0 and CV 0 and is Smooth;
\* [0,0,0,10,0,...,0] has ADI 10.0 and CV 3.0 and is Lumpy.
C5_ExamplesAsComputed ==
    Returned =>
      /\ input = SeriesDataset(ExampleAlternating)
           => /\ Len(classification_df.rows) = 1
              /\ classification_df.rows[1].adi = Num(200)
              /\ classification_df.rows[1].cv = Num(100)
              /\ classification_df.rows[1].demand_pattern = "Lumpy"
      /\ input = SeriesDataset(ExampleConstant)
           => /\ Len(classification_df.rows) = 1
              /\ classification_df.rows[1].adi = Num(100)
              /\ classification_df.rows[1].cv = Num(0)
              /\ classification_df.rows[1].demand_pattern = "Smooth"
      /\ input = SeriesDataset(ExampleSingleSpike)
           => /\ Len(classification_df.rows) = 1
              /\ classification_df.rows[1].adi = Num(1000)
              /\ classification_df.rows[1].cv = Num(300)
              /\ classification_df.rows[1].demand_pattern = "Lumpy"

C5_Witness ==
    /\ pc = "returned"
    /\ input = SeriesDataset(ExampleAlternating)
    /\ classification_df.rows[1].demand_pattern = "Lumpy"

\* C6: on a one-hot encoded input every row gets the code of the first
\* indicator column, in column order, whose value is 1, and LOC_001 when no
\* indicator is 1; when the input has a location_id column its values are kept,
\* and no location_id column appears when there is nothing to build it from.
C6_FirstSetIndicator ==
    Located =>
      /\ Len(df.rows) = Len(input.rows)
      /\ OneHot(input) =>
           \A i \in 1..Len(input.rows) :
             df.rows[i][LOCATION_ID] =
               IF SetIndicators(input, i) = {} THEN <<"LOC_", "001">>
               ELSE CodeOf(input.columns[Min(SetIndicators(input, i))])
      /\ HasColumn(input, LOCATION_ID) =>
           \A i \in 1..Len(input.rows) :
             df.rows[i][LOCATION_ID] = input.rows[i][LOCATION_ID]
      /\ (~OneHot(input) /\ ~HasColumn(input, LOCATION_ID))
           => ~HasColumn(df, LOCATION_ID)

C6_Witness ==
    /\ pc = "located"
    /\ input.columns = <<DATE, PART_SKU, QUANTITY_SOLD,
                          IndicatorColumn("003"), IndicatorColumn("002")>>
    /\ \E i \in 1..Len(input.rows) :
         /\ input.rows[i][IndicatorColumn("002")] = 1
         /\ input.rows[i][IndicatorColumn("003")] = 1
         /\ df.rows[i][LOCATION_ID] = LOC("003")

\* C7 as claimed: every row with no indicator set, or with more than one
\* indicator set to 1, is given the default location LOC_001.
C7_AmbiguousToDefault ==
    (Located /\ OneHot(input)) =>
      \A i \in 1..Len(input.rows) :
        Cardinality(SetIndicators(input, i)) # 1
          => df.rows[i][LOCATION_ID] = LOC("001")

\* C7 as amended: a row with no indicator equal to 1 is given LOC_001, a row
\* with several indicators equal to 1 is given the code of the first of them in
\* column order, and neither is rejected: the reconciler keeps every row and
\* raises nothing.
C7_AmbiguousResolved ==
    /\ (Located /\ OneHot(input)) =>
         /\ Len(df.rows) = Len(input.rows)
         /\ \A i \in 1..Len(input.rows) :
              LET set == SetIndicators(input, i)
              IN  /\ set = {} => df.rows[i][LOCATION_ID] = LOC("001")
                  /\ Cardinality(set) > 1 =>
                       /\ df.rows[i][LOCATION_ID] \in
                            {CodeOf(input.columns[j]) : j \in set}
                       /\ \A j \in set :
                            df.rows[i][LOCATION_ID] = CodeOf(input.columns[j])
                              => \A k \in set : j <= k
    /\ pc = "raised" => (err.line < 96 \/ err.line > 117)

C7_Witness ==
    /\ pc = "located"
    /\ OneHot(input)
    /\ \E i, k \in 1..Len(input.rows) :
         /\ SetIndicators(input, i) = {}
         /\ input.rows[i][IndicatorColumn("002")] = 2
         /\ df.rows[i][LOCATION_ID] = LOC("001")
         /\ Cardinality(SetIndicators(input, k)) = 2
         /\ df.rows[k][LOCATION_ID] = LOC("002")

\* the required columns that d lacks
MissingColumns(d) ==
    {c \in {DATE, PART_SKU, QUANTITY_SOLD} : ~HasColumn(d, c)}
    \cup (IF ~HasColumn(d, LOCATION_ID) /\ ~OneHot(d) THEN {LOCATION_ID} ELSE {})

\* C8 as claimed: when a required column is missing the run aborts with an
\* error before the per-group loop is entered and before any statistic is
\* computed, with no default for the column and no output table.
C8_AbortBeforeLoop ==
    MissingRequired(input) =>
      /\ ~loop_entered
      /\ stat_calls = 0
      /\ ~Returned
      /\ MissingColumns(input) \cap ToSet(df.columns) = {}
      /\ (~ENABLED Next) => pc = "raised"

\* C8 as amended: when a required column is missing the run aborts with an
\* error before any statistic is computed and before any classification record
\* is made, with no default for the column and no output table; the loop over
\* the groups is entered only when quantity_sold is the missing column, and the
\* run then aborts at the first statement of its first iteration.
C8_AbortBeforeStatistics ==
    MissingRequired(input) =>
      /\ stat_calls = 0
      /\ classification_results = <<>>
      /\ ~Returned
      /\ df_classified = NoFrame
      /\ MissingColumns(input) \cap ToSet(df.columns) = {}
      /\ (~ENABLED Next) => pc = "raised"
      /\ loop_entered =>
           /\ ~HasColumn(input, QUANTITY_SOLD)
           /\ pc = "raised"
           /\ err = [line |-> 127, error |-> "KeyError"]

C8_Witness ==
    /\ MissingRequired(input)
    /\ input.rows # <<>>
    /\ loop_entered
    /\ pc = "raised"
    /\ err.line = 127
    /\ stat_calls = 0

\* C9: after a run, completed or aborted, every column the caller's dataset
\* had before the call holds the values it held before the call.
C9_InputUnchanged ==
    Terminal =>
      /\ Len(df.rows) = Len(input.rows)
      /\ \A i \in 1..Len(input.rows) :
           \A c \in ToSet(input.columns) : df.rows[i][c] = input.rows[i][c]

RECURSIVE SumField(_, _)
SumField(lines, f) ==
    IF lines = <<>> THEN 0 ELSE Head(lines)[f] + SumField(Tail(lines), f)

Abs(x) == IF x < 0 THEN -x ELSE x

\* one distribution table of the report against the column it summarises
DistributionOk(lines, values) ==
    /\ Len(lines) = 5
    /\ {lines[i].pattern : i \in 1..5} =
         {"Smooth", "Erratic", "Intermittent", "Lumpy", "Unknown"}
    /\ \A i \in 1..5 :
         /\ lines[i].count =
              Cardinality({j \in 1..Len(values) : values[j] = lines[i].pattern})
         /\ 2 * Abs(lines[i].pct * Len(values) - 10000 * lines[i].count)
              <= Len(values)
    /\ SumField(lines, "count") = Len(values)
    /\ Abs(SumField(lines, "pct") - 10000) <= 2

\* C10: the report lists all five categories at group level and at record
\* level, an absent one with count zero; at each level the counts sum to the
\* total, each percentage is the count over the total to the nearest 0.01, and
\* the five percentages sum to 100 within the rounding tolerance.
C10_ReportTotals ==
    pc = "reported" =>
      /\ report.total_groups = Len(classification_df.rows)
      /\ report.total_records = Len(df_classified.rows)
      /\ DistributionOk(report.group_lines, PatternsOf(classification_df.rows))
      /\ DistributionOk(report.record_lines,
                        Column(df_classified.rows, DEMAND_PATTERN))

C10_Witness ==
    /\ pc = "reported"
    /\ report.total_groups = 2
    /\ report.total_records = 3
    /\ \E i, k \in 1..5 :
         /\ report.group_lines[i].pattern = "Lumpy"
         /\ report.group_lines[i].count = 1
         /\ report.group_lines[i].pct = 5000
         /\ report.record_lines[i].count = 2
         /\ report.record_lines[i].pct = 6667
         /\ report.group_lines[k].pattern = "Intermittent"
         /\ report.group_lines[k].count = 0
         /\ report.record_lines[k].pct = 0

====
